---------------------------- MODULE Spec2Model ----------------------------
(***************************************************************************)
(* GCSObjectStreamUpload: the resumable chunked upload stream of           *)
(* cloud_function/storage/base.py and functions/ews-mail-ingest/main.py,   *)
(* driven the way StorageService._store_file / write_stream_to_blob drive  *)
(* it: `with GCSObjectStreamUpload(...) as f: f.write(buffer) ...`.        *)
(*                                                                         *)
(* The stream object's fields (_buffer, _buffer_size, _read, _chunk_size)  *)
(* and its methods are translated from the source.  The object hands       *)
(* itself to a ResumableUpload (`stream=self`), which pulls bytes with     *)
(* read(chunk_size) and tell().  That transport is not part of the         *)
(* repository: it is modelled by its interface as the design describes it  *)
(* (initiate / transmit_next_chunk / recover, a committed offset), with    *)
(* the backend's answer to each call an input.  The only finality          *)
(* information the source gives the transport is stream_final=False.       *)
(*                                                                         *)
(* The class exists twice in the source.  The copy of main.py is carried   *)
(* as a second stream (twin) that every action steps with the same data    *)
(* and the same backend answers as the stream of storage/base.py.          *)
(***************************************************************************)
EXTENDS Integers, Sequences, FiniteSets, TLC

\* ------------------------------------------------------------ bounds
\* chunk_size is a constructor parameter (default 256 * 1024); the model
\* draws it from 1..MaxChunk.
MaxChunk == 2
\* longest data passed to one write
MaxData == 3
\* total number of bytes written to one stream
MaxTotal == 4
\* errors of write a caller catches and survives (SpecApi only)
MaxCatch == 1
\* attachments of one mail message (SpecMail only)
MaxAtt == 2

Byte == {0, 1}

Min(a, b) == IF a < b THEN a ELSE b

RECURSIVE SeqsUpTo(_)
SeqsUpTo(n) ==
    IF n = 0 THEN {<< >>}
    ELSE LET S == SeqsUpTo(n - 1)
         IN  S \cup {Append(s, b) : s \in {t \in S : Len(t) = n - 1}, b \in Byte}

\* python slicing seq[lo:hi] (0-based, hi exclusive, out-of-range truncated)
Slice(s, lo, hi) == SubSeq(s, Min(lo, Len(s)) + 1, Min(hi, Len(s)))

VARIABLES
    chunk_size,      \* self._chunk_size
    buffer,          \* self._buffer
    buffer_size,     \* self._buffer_size
    read_count,      \* self._read
    stream_final,    \* the stream_final argument given to initiate
    pc,              \* where the caller of the stream stands
    exc,             \* the exception in flight: "none" or "error"
    bytes_uploaded,  \* the transport's committed offset (bytesCommitted)
    received,        \* bytes the backend holds for the session, in order
    committed,       \* the backend object has been sealed by a final chunk
    transmissions,   \* log of transmit_next_chunk calls
    written,         \* concatenation of all data passed to write
    w,               \* bookkeeping of the current / last write call
    initiates,       \* number of initiate calls
    recovers,        \* number of recover calls
    afterRecover,    \* the last transport call was a successful recover
    failed,          \* an exception has been raised out of the stream
    catches,         \* errors of write the caller has caught
    twin,            \* the GCSObjectStreamUpload of main.py, run side by side
    mail             \* EWSMailMessage.process: its position and effects

uploadVars == << chunk_size, buffer, buffer_size, read_count, stream_final, pc,
                 exc, bytes_uploaded, received, committed, transmissions,
                 written, w, initiates, recovers, afterRecover, failed,
                 catches, twin >>

vars == << uploadVars, mail >>

streamVars == << buffer, buffer_size, read_count >>
sessionVars == << bytes_uploaded, received, committed, transmissions,
                  recovers, afterRecover >>

\* no write call yet
NoWrite == [len |-> 0, pre |-> << >>, first |-> 1, n |-> 0, ninv |-> 0,
            nrec |-> 0, ret |-> -1, active |-> FALSE]

\* the stream of main.py after __init__; it records the calls it makes on
\* its transport: the arguments of initiate, the payloads handed to
\* transmit_next_chunk, the number of recover calls
MainNew == [buffer |-> << >>, buffer_size |-> 0, read |-> 0, pc |-> "new",
            exc |-> "none", initiate |-> << >>, sent |-> << >>,
            recovers |-> 0]

\* a message not yet taken up by process
MailIdle == [pc |-> "idle", atts |-> << >>, i |-> 0, uploads |-> << >>,
             message_attachments |-> << >>, is_read |-> FALSE,
             saved |-> FALSE, moved |-> FALSE, meta_blob |-> FALSE,
             published |-> FALSE, event |-> << >>]

\* ------------------------------------------------- GCSObjectStreamUpload

\* __init__: empty buffer, counters at zero, no request yet
Init ==
    /\ chunk_size \in 1..MaxChunk
    /\ buffer = << >>
    /\ buffer_size = 0
    /\ read_count = 0
    /\ stream_final = FALSE
    /\ pc = "new"
    /\ exc = "none"
    /\ bytes_uploaded = 0
    /\ received = << >>
    /\ committed = FALSE
    /\ transmissions = << >>
    /\ written = << >>
    /\ w = NoWrite
    /\ initiates = 0
    /\ recovers = 0
    /\ afterRecover = FALSE
    /\ failed = FALSE
    /\ catches = 0
    /\ twin = MainNew
    /\ mail = MailIdle

\* a read that ignores how much is buffered
ToReadAll(n, size) == n

\* read: to_read = min(chunk_size, self._buffer_size)
ToRead(n, size) == Min(n, size)

\* a read that forgets to advance the read cursor
readNoCursor(n) ==
    LET to_read == ToRead(n, buffer_size)
    IN  [data |-> Slice(buffer, 0, to_read),
         rest |-> Slice(buffer, to_read, Len(buffer)),
         rd   |-> read_count,
         size |-> buffer_size - to_read]

\* read: returns memview[:to_read], keeps memview[to_read:], advances _read
\* and lowers _buffer_size by to_read
read(n) ==
    LET to_read == ToRead(n, buffer_size)
    IN  [data |-> Slice(buffer, 0, to_read),
         rest |-> Slice(buffer, to_read, Len(buffer)),
         rd   |-> read_count + to_read,
         size |-> buffer_size - to_read]

\* tell: return self._read
tell == read_count

\* a write that puts the new data in front of the pending bytes
AccumulateFront(buf, data) == data \o buf

\* write: self._buffer += data
Accumulate(buf, data) == buf \o data

\* a loop that leaves a full chunk in the buffer
LoopGuardStrict(size, chunk) == size > chunk

\* write: while self._buffer_size >= self._chunk_size
LoopGuard(size, chunk) == size >= chunk

\* an __exit__ that flushes on every exit path
ExitAlwaysStops(e) == TRUE

\* __exit__: if exc_type is None: self.stop()
ExitCallsStop(e) == e = "none"

\* start: initiate(..., stream_final=False, ...)
InitiateStreamFinal == FALSE

\* ------------------------------------------------------ the transport

\* the answers of the backend to one chunk:
\*   ok            accepted
\*   invalid_lost  invalid-response, the chunk was not stored
\*   invalid_kept  invalid-response, the chunk was stored all the same
\*   error         a failure that is not of the invalid-response class
Outcomes == {"ok", "invalid_lost", "invalid_kept", "error"}

\* transmit_next_chunk(transport): pulls one window from the stream with
\* read(chunk_size) and sends it from offset tell(), marked final as
\* initiate was told
Transmit(by, outcome) ==
    LET r == read(chunk_size)
        stored == outcome \in {"ok", "invalid_kept"}
    IN  /\ buffer' = r.rest
        /\ buffer_size' = r.size
        /\ read_count' = r.rd
        /\ received' = IF stored THEN received \o r.data ELSE received
        /\ committed' = (committed \/ (outcome = "ok" /\ stream_final))
        /\ transmissions' = Append(transmissions,
               [by |-> by, payload |-> r.data, start |-> tell,
                offset |-> bytes_uploaded, final |-> stream_final,
                outcome |-> outcome, retry |-> afterRecover,
                pending |-> buffer, unwinding |-> (exc # "none")])

\* transmit_next_chunk: on success the committed offset advances by the
\* number of bytes sent
Advanced(outcome) ==
    IF outcome = "ok"
    THEN bytes_uploaded + Len(read(chunk_size).data)
    ELSE bytes_uploaded

\* recover(transport): the committed offset becomes the one the backend
\* reports, the number of bytes it holds
Recovered(held) == Len(held)

\* ------------------------------- GCSObjectStreamUpload of main.py

\* the content type the caller gave the constructor of the stream of
\* storage/base.py (self._content_type), passed on to initiate
ContentType == "caller-supplied"

\* start of main.py: content_type='application/octet-stream'
MainContentType == "application/octet-stream"

\* start of main.py: stream_final=False
MainInitiateStreamFinal == FALSE

\* read of main.py: to_read = min(chunk_size, self._buffer_size)
MainToRead(n, size) == Min(n, size)

\* read of main.py
MainRead(t, n) ==
    LET to_read == MainToRead(n, t.buffer_size)
    IN  [data |-> Slice(t.buffer, 0, to_read),
         rest |-> Slice(t.buffer, to_read, Len(t.buffer)),
         rd   |-> t.read + to_read,
         size |-> t.buffer_size - to_read]

\* write of main.py: self._buffer += data
MainAccumulate(buf, data) == buf \o data

\* a loop that leaves a full chunk in the buffer
MainLoopGuardStrict(size, chunk) == size > chunk

\* write of main.py: while self._buffer_size >= self._chunk_size
MainLoopGuard(size, chunk) == size >= chunk

\* __exit__ of main.py: if exc_type is None: self.stop()
MainExitCallsStop(e) == e = "none"

\* transmit_next_chunk on the stream of main.py: one read(chunk_size)
MainTransmit(t) ==
    LET r == MainRead(t, chunk_size)
    IN  [t EXCEPT !.buffer = r.rest, !.buffer_size = r.size, !.read = r.rd,
                  !.sent = Append(@, r.data)]

\* __enter__ -> start of main.py; initiate returns (ok) or raises
MainEnter(t, ok) ==
    IF t.pc = "new"
    THEN [t EXCEPT !.pc = IF ok THEN "body" ELSE "enter_raised",
                   !.exc = IF ok THEN @ ELSE "error",
                   !.initiate = Append(@,
                       [content_type |-> MainContentType,
                        stream_final |-> MainInitiateStreamFinal])]
    ELSE t

\* write of main.py, up to the loop
MainWriteCall(t, data) ==
    IF t.pc = "body"
    THEN [t EXCEPT !.buffer = MainAccumulate(@, data),
                   !.buffer_size = @ + Len(data),
                   !.pc = "in_write"]
    ELSE t

\* write of main.py, one turn of the loop under the backend's answer
MainWriteTurn(t, outcome, recOk) ==
    IF t.pc = "in_write" /\ MainLoopGuard(t.buffer_size, chunk_size)
    THEN LET s == MainTransmit(t)
         IN  IF outcome = "ok" THEN s
             ELSE IF outcome = "error"
             THEN [s EXCEPT !.pc = "unwinding", !.exc = "error"]
             ELSE [s EXCEPT !.recovers = @ + 1,
                            !.pc = IF recOk THEN @ ELSE "unwinding",
                            !.exc = IF recOk THEN @ ELSE "error"]
    ELSE t

\* write of main.py: the loop ends
MainWriteReturn(t) ==
    IF t.pc = "in_write" /\ ~MainLoopGuard(t.buffer_size, chunk_size)
    THEN [t EXCEPT !.pc = "body"]
    ELSE t

\* the with body around the stream of main.py raises outside write
MainBodyRaises(t) ==
    IF t.pc = "body"
    THEN [t EXCEPT !.pc = "unwinding", !.exc = "error"]
    ELSE t

\* __exit__ -> stop of main.py
MainExit(t, outcome) ==
    IF t.pc \in {"body", "unwinding"}
    THEN IF MainExitCallsStop(t.exc)
         THEN [MainTransmit(t) EXCEPT
                   !.pc = IF outcome # "ok" THEN "exit_raised"
                          ELSE IF t.exc = "none" THEN "closed" ELSE "abandoned",
                   !.exc = IF outcome = "ok" THEN @ ELSE "error"]
         ELSE [t EXCEPT !.pc = "abandoned"]
    ELSE t

\* the caller catches the error of a write of the stream of main.py
MainCatchInBody(t) ==
    IF t.pc = "unwinding"
    THEN [t EXCEPT !.pc = "body", !.exc = "none"]
    ELSE t

\* ------------------------------------------------------------ actions

\* an __enter__ that returns the stream without calling start
EnterNoStart ==
    /\ pc = "new"
    /\ pc' = "body"
    /\ twin' = MainEnter(twin, TRUE)
    /\ UNCHANGED << mail, catches, chunk_size, streamVars, sessionVars, exc, written,
                    w, failed, stream_final, initiates >>

\* __enter__ -> start -> initiate succeeds; the with body is entered
Enter ==
    /\ pc = "new"
    /\ pc' = "body"
    /\ stream_final' = InitiateStreamFinal
    /\ initiates' = initiates + 1
    /\ twin' = MainEnter(twin, TRUE)
    /\ UNCHANGED << mail, catches, chunk_size, streamVars, sessionVars, exc, written, w, failed >>

\* __enter__ -> start -> initiate raises: the with body is not entered and
\* __exit__ is not called
EnterFails ==
    /\ pc = "new"
    /\ pc' = "enter_raised"
    /\ exc' = "error"
    /\ failed' = TRUE
    /\ stream_final' = InitiateStreamFinal
    /\ initiates' = initiates + 1
    /\ twin' = MainEnter(twin, FALSE)
    /\ UNCHANGED << mail, catches, chunk_size, streamVars, sessionVars, written, w >>

\* write(data), up to the loop: _buffer_size += len(data); _buffer += data
\* (the callers loop `while buffer: f.write(buffer)`: data is never empty)
WriteCall(data) ==
    /\ pc = "body"
    /\ Len(written) + Len(data) <= MaxTotal
    /\ buffer' = Accumulate(buffer, data)
    /\ buffer_size' = buffer_size + Len(data)
    /\ written' = written \o data
    /\ w' = [len |-> Len(data), pre |-> buffer \o data,
             first |-> Len(transmissions) + 1, n |-> 0, ninv |-> 0,
             nrec |-> 0, ret |-> -1, active |-> TRUE]
    /\ pc' = "in_write"
    /\ twin' = MainWriteCall(twin, data)
    /\ UNCHANGED << mail, catches, chunk_size, read_count, stream_final, exc, sessionVars,
                    initiates, failed >>

\* write, one turn of the loop: transmit_next_chunk succeeds
WriteTransmitOk ==
    /\ pc = "in_write"
    /\ LoopGuard(buffer_size, chunk_size)
    /\ Transmit("write", "ok")
    /\ bytes_uploaded' = Advanced("ok")
    /\ afterRecover' = FALSE
    /\ w' = [w EXCEPT !.n = @ + 1]
    /\ twin' = MainWriteTurn(twin, "ok", TRUE)
    /\ UNCHANGED << mail, catches, chunk_size, stream_final, pc, exc, written, initiates,
                    recovers, failed >>

\* a handler that swallows the InvalidResponse without calling recover
WriteTransmitInvalidNoRecover(kept, recOk) ==
    /\ pc = "in_write"
    /\ LoopGuard(buffer_size, chunk_size)
    /\ Transmit("write", IF kept THEN "invalid_kept" ELSE "invalid_lost")
    /\ bytes_uploaded' = bytes_uploaded
    /\ afterRecover' = FALSE
    /\ w' = [w EXCEPT !.n = @ + 1, !.ninv = @ + 1]
    /\ twin' = MainWriteTurn(twin, IF kept THEN "invalid_kept"
                                    ELSE "invalid_lost", recOk)
    /\ UNCHANGED << mail, catches, chunk_size, stream_final, pc, exc, written,
                    initiates, recovers, failed >>

\* write, one turn of the loop: transmit_next_chunk raises InvalidResponse,
\* the handler calls recover, which resynchronises the committed offset and
\* returns (the loop goes on) or raises itself (the error leaves write)
WriteTransmitInvalid(kept, recOk) ==
    /\ pc = "in_write"
    /\ LoopGuard(buffer_size, chunk_size)
    /\ Transmit("write", IF kept THEN "invalid_kept" ELSE "invalid_lost")
    /\ recovers' = recovers + 1
    /\ bytes_uploaded' = IF recOk THEN Recovered(received') ELSE bytes_uploaded
    /\ afterRecover' = recOk
    /\ w' = [w EXCEPT !.n = @ + 1, !.ninv = @ + 1, !.nrec = @ + 1]
    /\ pc' = IF recOk THEN "in_write" ELSE "unwinding"
    /\ exc' = IF recOk THEN exc ELSE "error"
    /\ failed' = (failed \/ ~recOk)
    /\ twin' = MainWriteTurn(twin, IF kept THEN "invalid_kept"
                                    ELSE "invalid_lost", recOk)
    /\ UNCHANGED << mail, catches, chunk_size, stream_final, written, initiates >>

\* a handler that catches every exception, recovers and goes on
WriteTransmitErrorRetried ==
    /\ pc = "in_write"
    /\ LoopGuard(buffer_size, chunk_size)
    /\ Transmit("write", "error")
    /\ recovers' = recovers + 1
    /\ bytes_uploaded' = Recovered(received')
    /\ afterRecover' = TRUE
    /\ w' = [w EXCEPT !.n = @ + 1, !.nrec = @ + 1]
    /\ twin' = MainWriteTurn(twin, "error", TRUE)
    /\ UNCHANGED << mail, catches, chunk_size, stream_final, pc, exc, written,
                    initiates, failed >>

\* write, one turn of the loop: transmit_next_chunk raises an error that is
\* not InvalidResponse; it leaves write
WriteTransmitError ==
    /\ pc = "in_write"
    /\ LoopGuard(buffer_size, chunk_size)
    /\ Transmit("write", "error")
    /\ bytes_uploaded' = Advanced("error")
    /\ afterRecover' = FALSE
    /\ w' = [w EXCEPT !.n = @ + 1]
    /\ pc' = "unwinding"
    /\ exc' = "error"
    /\ failed' = TRUE
    /\ twin' = MainWriteTurn(twin, "error", TRUE)
    /\ UNCHANGED << mail, catches, chunk_size, stream_final, written, initiates, recovers >>

\* write: the loop ends, return data_len
WriteReturn ==
    /\ pc = "in_write"
    /\ ~LoopGuard(buffer_size, chunk_size)
    /\ w' = [w EXCEPT !.ret = w.len, !.active = FALSE]
    /\ pc' = "body"
    /\ twin' = MainWriteReturn(twin)
    /\ UNCHANGED << mail, catches, chunk_size, streamVars, stream_final, exc, sessionVars,
                    written, initiates, failed >>

\* the with body raises outside write (fp.read fails)
BodyRaises ==
    /\ pc = "body"
    /\ pc' = "unwinding"
    /\ exc' = "error"
    /\ failed' = TRUE
    /\ twin' = MainBodyRaises(twin)
    /\ UNCHANGED << mail, catches, chunk_size, streamVars, stream_final, sessionVars,
                    written, w, initiates >>

\* the with statement is left, normally (pc = "body") or by an exception
\* (pc = "unwinding"): __exit__(exc_type, ...) calls stop, one
\* transmit_next_chunk, only if exc_type is None
Exit(outcome) ==
    /\ pc \in {"body", "unwinding"}
    /\ IF ExitCallsStop(exc)
       THEN /\ Transmit("stop", outcome)
            /\ bytes_uploaded' = Advanced(outcome)
            /\ afterRecover' = FALSE
            /\ pc' = IF outcome # "ok" THEN "exit_raised"
                     ELSE IF exc = "none" THEN "closed" ELSE "abandoned"
            /\ exc' = IF outcome = "ok" THEN exc ELSE "error"
            /\ failed' = (failed \/ outcome # "ok")
            /\ UNCHANGED recovers
       ELSE /\ outcome = "ok"
            /\ pc' = "abandoned"
            /\ UNCHANGED << streamVars, sessionVars, exc, failed >>
    /\ twin' = MainExit(twin, outcome)
    /\ UNCHANGED << mail, catches, chunk_size, stream_final, written, w, initiates >>

\* a caller that holds the stream catches the error of a write inside the
\* with body and goes on using the stream
CatchInBody ==
    /\ pc = "unwinding"
    /\ w.active
    /\ catches < MaxCatch
    /\ catches' = catches + 1
    /\ pc' = "body"
    /\ exc' = "none"
    /\ w' = [w EXCEPT !.active = FALSE]
    /\ twin' = MainCatchInBody(twin)
    /\ UNCHANGED << mail, chunk_size, streamVars, stream_final, sessionVars,
                    written, initiates, failed >>

Next ==
    \/ Enter
    \/ EnterFails
    \/ \E data \in SeqsUpTo(MaxData) \ {<< >>} : WriteCall(data)
    \/ WriteTransmitOk
    \/ \E kept \in BOOLEAN, recOk \in BOOLEAN : WriteTransmitInvalid(kept, recOk)
    \/ WriteTransmitError
    \/ WriteReturn
    \/ BodyRaises
    \/ \E o \in Outcomes : Exit(o)

\* the stream as StorageService._store_file and write_stream_to_blob use
\* it: an error leaves the with statement
Spec == Init /\ [][Next]_vars

NextApi ==
    \/ Next
    \/ CatchInBody

\* the stream under any caller of its methods inside a with statement
SpecApi == Init /\ [][NextApi]_vars

\* ------------------------------------------------- EWSMailMessage.process

AttachmentKinds ==
    [file : BOOLEAN, content_type : {"text/xml", "application/pdf", "image/png"},
     name : {"a", "b"}]

RECURSIVE AttachmentLists(_)
AttachmentLists(n) ==
    IF n = 0 THEN {<< >>}
    ELSE LET S == AttachmentLists(n - 1)
         IN  S \cup {Append(l, a) : l \in {t \in S : Len(t) = n - 1},
                                    a \in AttachmentKinds}

\* an eligibility test that takes every file attachment
EligibleAnyFile(att) == att.file

\* process_message_attachments: isinstance(attachment, FileAttachment) and
\* attachment.content_type in ['text/xml', 'application/pdf']
Eligible(att) ==
    att.file /\ att.content_type \in {"text/xml", "application/pdf"}

\* an upload whose error is swallowed
PropagatesNever(outcome) == FALSE

\* process_message_attachments: try ... finally (no except): an error of
\* the upload leaves the loop and process
Propagates(outcome) == outcome # "ok"

\* file_path = '%s/%s' % (self.path, clean_attachment_name)
FilePath(att) == att.name

\* process, first step: the original e-mail body is uploaded
MailStart(atts, ok) ==
    /\ mail.pc = "idle"
    /\ mail' = [mail EXCEPT !.pc = IF ok THEN "attachments" ELSE "raised",
                            !.atts = atts, !.i = 1]
    /\ UNCHANGED uploadVars

\* process_message_attachments, one turn of the loop.  The upload of an
\* eligible attachment is write_stream_to_blob: a with statement on a
\* GCSObjectStreamUpload, which ends released normally ("ok"), or with an
\* error out of the with statement ("raised"); the cleaning of a PDF can
\* fail before the stream is opened ("clean_raised").
MailAttachment(outcome) ==
    /\ mail.pc = "attachments"
    /\ mail.i <= Len(mail.atts)
    /\ LET att == mail.atts[mail.i]
       IN  IF Eligible(att)
           THEN /\ outcome = "clean_raised" => att.content_type = "application/pdf"
                /\ mail' = [mail EXCEPT
                       !.uploads = IF outcome = "clean_raised" THEN @
                                   ELSE Append(@, [idx |-> mail.i,
                                                   path |-> FilePath(att),
                                                   released |-> outcome = "ok"]),
                       !.message_attachments =
                           IF outcome = "ok"
                           THEN Append(@, [name |-> att.name,
                                           path |-> FilePath(att),
                                           content_type |-> att.content_type])
                           ELSE @,
                       !.i = @ + 1,
                       !.pc = IF Propagates(outcome) THEN "raised" ELSE @]
           ELSE /\ outcome = "ok"
                /\ mail' = [mail EXCEPT !.i = @ + 1]
    /\ UNCHANGED uploadVars

\* process_message_attachments returns the list
MailAttachmentsDone ==
    /\ mail.pc = "attachments"
    /\ mail.i > Len(mail.atts)
    /\ mail' = [mail EXCEPT !.pc = "status"]
    /\ UNCHANGED uploadVars

\* process_message_status: is_read = True; save; move
MailStatus(outcome) ==
    /\ mail.pc = "status"
    /\ mail' = [mail EXCEPT !.is_read = TRUE,
                            !.saved = outcome # "save_raised",
                            !.moved = outcome = "ok",
                            !.pc = IF outcome = "ok" THEN "meta" ELSE "raised"]
    /\ UNCHANGED uploadVars

\* process_message_meta: metadata.json is uploaded, then the event is
\* published with the attachments list
MailMeta(outcome) ==
    /\ mail.pc = "meta"
    /\ mail' = [mail EXCEPT !.meta_blob = outcome # "blob_raised",
                            !.published = outcome = "ok",
                            !.event = IF outcome = "ok"
                                      THEN mail.message_attachments ELSE @,
                            !.pc = IF outcome = "ok" THEN "done" ELSE "raised"]
    /\ UNCHANGED uploadVars

NextMail ==
    \/ \E atts \in AttachmentLists(MaxAtt), ok \in BOOLEAN : MailStart(atts, ok)
    \/ \E o \in {"ok", "raised", "clean_raised"} : MailAttachment(o)
    \/ MailAttachmentsDone
    \/ \E o \in {"ok", "save_raised", "move_raised"} : MailStatus(o)
    \/ \E o \in {"ok", "blob_raised", "publish_raised"} : MailMeta(o)

\* the processing of one mail message
SpecMail == Init /\ [][NextMail]_vars

\* ------------------------------------------------------------ claims

Transmitted == DOMAIN transmissions
AllOk == \A i \in Transmitted : transmissions[i].outcome = "ok"
Finals == {i \in Transmitted : transmissions[i].final}
ByStop == {i \in Transmitted : transmissions[i].by = "stop"}
ByWrite == {i \in Transmitted : transmissions[i].by = "write"}

\* C1 (byte-exactness): when every transmission succeeded and the stream was
\* released normally, the bytes the backend received, in transmission order,
\* are exactly the concatenation of the data written.
C1_ByteExactness ==
    (pc = "closed" /\ AllOk) => received = written

\* a released stream that took two writes, sent at least one full chunk from
\* write and an unaligned remainder from the release
C1_Witness ==
    /\ pc = "closed"
    /\ AllOk
    /\ Len(written) > chunk_size
    /\ Len(written) % chunk_size # 0
    /\ ByWrite # {}
    /\ w.len > 0
    /\ w.len < Len(written)
    /\ \E i, j \in 1..Len(written) : written[i] # written[j]

\* C2 (recovery correctness): the transmission that follows an
\* invalid-response and a recover() reporting offset c starts at position c of
\* the written stream, and resends the same bytes when the failed chunk was
\* not stored.
C2_RetryStartsAtCommitted ==
    \A i \in Transmitted :
        transmissions[i].retry =>
            /\ transmissions[i].start = transmissions[i].offset
            /\ (i > 1 /\ transmissions[i - 1].outcome = "invalid_lost") =>
                   transmissions[i].payload = transmissions[i - 1].payload

\* C3 (single finalization): at most one transmission is marked final, none
\* issued from write is, and a run ended by a normal release holds exactly
\* one, issued by the release.
C3_SingleFinalization ==
    /\ Cardinality(Finals) <= 1
    /\ Finals \cap ByWrite = {}
    /\ pc = "closed" => (Cardinality(Finals) = 1 /\ Finals \subseteq ByStop)

\* C4 (no finalization on abnormal exit): when the with body is left by an
\* error, the release issues no transmission, no transmission of the session
\* is marked final and the backend object is not committed.
C4_NoFinalizeOnAbnormalExit ==
    pc = "abandoned" =>
        /\ ByStop = {}
        /\ \A i \in Transmitted : ~transmissions[i].unwinding
        /\ Finals = {}
        /\ ~committed

\* a stream abandoned after a transport error in write, bytes still buffered
C4_Witness ==
    /\ pc = "abandoned"
    /\ Transmitted # {}
    /\ transmissions[Len(transmissions)].outcome = "error"
    /\ transmissions[Len(transmissions)].by = "write"
    /\ buffer_size > 0

\* C5 (bounded retry): against a backend that answers every chunk with an
\* invalid-response, a write that needs a transmission ends in failure: it
\* does not return normally.
C5_AllInvalidWriteFails ==
    ~(w.ret >= 0 /\ w.n > 0 /\ w.ninv = w.n)

\* C7 (FAILED is terminal and refuses writes): once the stream has failed
\* it stays failed, and no later write is accepted or adds bytes to the
\* buffer.
C7_FailedRefusesWrites ==
    [][failed => (failed' /\ pc' # "in_write" /\ buffer' = buffer)]_vars

\* C8 (monotonic commit offset): the committed offset never decreases, and
\* is at most the number of bytes written and at most the read cursor.
C8_MonotonicCommitOffset ==
    /\ [][bytes_uploaded' >= bytes_uploaded]_vars
    /\ [](bytes_uploaded <= Len(written) /\ bytes_uploaded <= tell)

\* after a chunk was accepted and the next one was lost and recovered: the
\* committed offset is positive and behind the read cursor
C8_Witness ==
    /\ afterRecover
    /\ bytes_uploaded > 0
    /\ bytes_uploaded < tell
    /\ tell < Len(written)

\* C9 (normal release flushes everything in one transmission): a normal
\* release issues exactly one transmission, carrying all the bytes still
\* buffered, fewer than chunk_size; afterwards the buffer is empty and every
\* byte written has been handed to the transport.
C9_ReleaseFlushesAll ==
    pc \in {"closed", "exit_raised"} =>
        /\ Cardinality(ByStop) = 1
        /\ LET t == transmissions[Len(transmissions)]
           IN  /\ t.by = "stop"
               /\ t.payload = t.pending
               /\ Len(t.payload) < chunk_size
        /\ buffer = << >>
        /\ buffer_size = 0
        /\ read_count = Len(written)

\* a release that flushed a non-empty remainder after write had sent chunks
C9_Witness ==
    /\ pc = "closed"
    /\ ByWrite # {}
    /\ transmissions[Len(transmissions)].payload # << >>

\* C10 (chunk-aligned transmissions from write): with no failures, a write
\* that brings the buffer to b + len(data) bytes issues exactly
\* (b + len(data)) \div chunk_size transmissions, each carrying the next
\* chunk_size bytes of the buffer in order, and returns with the remainder
\* buffered.
C10_ChunkAlignedWrite ==
    (pc = "body" /\ w.ret >= 0 /\ w.ninv = 0) =>
        /\ w.n = Len(w.pre) \div chunk_size
        /\ Len(transmissions) = w.first + w.n - 1
        /\ \A k \in 1..w.n :
              LET t == transmissions[w.first + k - 1]
              IN  /\ t.by = "write"
                  /\ t.payload = SubSeq(w.pre, (k - 1) * chunk_size + 1,
                                        k * chunk_size)
        /\ buffer = SubSeq(w.pre, w.n * chunk_size + 1, Len(w.pre))
        /\ buffer_size = Len(w.pre) % chunk_size

\* a write that found bytes buffered and sent two chunks
C10_Witness ==
    /\ pc = "body"
    /\ w.ret >= 0
    /\ w.ninv = 0
    /\ w.n >= 2
    /\ Len(w.pre) > w.len

\* C11 (backlog bound and return value of write): a write that returns
\* normally returns len(data) and leaves fewer than chunk_size bytes
\* buffered, also when transmissions inside it were answered
\* invalid-response and recovered.
C11_WriteReturnsBelowChunk ==
    (pc = "body" /\ w.ret >= 0) =>
        /\ w.ret = w.len
        /\ buffer_size < chunk_size
        /\ Len(buffer) < chunk_size

\* a write that returned after a recovered invalid-response, bytes left over
C11_Witness ==
    /\ pc = "body"
    /\ w.ret > 0
    /\ w.ninv > 0
    /\ buffer_size > 0

\* C12 (buffer bounds): the size counter equals the length of the pending
\* bytes and is never negative; read(n) returns the first min(n, size) bytes
\* in order and leaves the tail, with the counter lowered by as much; on an
\* empty buffer it returns nothing.
C12_BufferBounds ==
    /\ buffer_size = Len(buffer)
    /\ buffer_size >= 0
    /\ \A n \in 0..(MaxChunk + 1) :
          LET k == Min(n, buffer_size)
          IN  /\ read(n) = [data |-> SubSeq(buffer, 1, k),
                            rest |-> SubSeq(buffer, k + 1, Len(buffer)),
                            rd   |-> read_count + k,
                            size |-> Len(buffer) - k]
              /\ k <= Len(buffer)
    /\ \A i \in Transmitted :
          transmissions[i].payload =
              SubSeq(transmissions[i].pending, 1,
                     Min(chunk_size, Len(transmissions[i].pending)))

\* a read has taken a chunk and left a non-empty tail, and a short read has
\* happened before
C12_Witness ==
    /\ buffer_size > 0
    /\ buffer_size < chunk_size
    /\ ByWrite # {}

\* C13 (initiate exactly once and first): a stream that has been entered
\* has called initiate exactly once; there is no transmission, recover or
\* write before initiate succeeded; when initiate fails the body is not
\* entered and nothing is written or transmitted.
C13_InitiateOnceAndFirst ==
    /\ initiates <= 1
    /\ pc # "new" => initiates = 1
    /\ (Transmitted # {} \/ recovers > 0 \/ written # << >> \/ w # NoWrite) =>
           (initiates = 1 /\ pc # "enter_raised")
    /\ pc = "enter_raised" =>
           (Transmitted = {} /\ recovers = 0 /\ written = << >> /\ w = NoWrite)

\* a stream that transmitted, recovered and closed after its one initiate
C13_Witness ==
    /\ pc = "closed"
    /\ initiates = 1
    /\ recovers > 0
    /\ ByWrite # {}

RECURSIVE Handed(_)
\* the bytes read has handed out so far, in order
Handed(n) ==
    IF n = 0 THEN << >> ELSE Handed(n - 1) \o transmissions[n].payload

\* C14 (read cursor): tell() is the number of bytes read has ever returned;
\* it is unchanged by write, and advances on each read by the length
\* returned.
C14_ReadCursor ==
    /\ tell = Len(Handed(Len(transmissions)))
    /\ tell >= 0

\* after a full read and a short read
C14_Witness ==
    /\ ByWrite # {}
    /\ \E i \in ByStop :
          /\ Len(transmissions[i].payload) > 0
          /\ Len(transmissions[i].payload) < chunk_size
    /\ tell = Len(written)

IsInvalid(t) == t.outcome \in {"invalid_lost", "invalid_kept"}

\* C15 (recovery protocol ordering): a transmission follows an
\* invalid-response only after a successful recover; write calls recover
\* once per invalid-response and never otherwise; an invalid-response to the
\* release's transmission is not recovered and reaches the caller.
C15_RecoveryOrdering ==
    /\ recovers = Cardinality({i \in ByWrite : IsInvalid(transmissions[i])})
    /\ \A i \in Transmitted :
          /\ (i > 1 /\ IsInvalid(transmissions[i - 1])) => transmissions[i].retry
          /\ transmissions[i].retry =>
                 (i > 1 /\ IsInvalid(transmissions[i - 1])
                        /\ transmissions[i - 1].by = "write")
    /\ \A i \in ByStop :
          IsInvalid(transmissions[i]) =>
              (i = Len(transmissions) /\ pc = "exit_raised" /\ exc = "error"
                   /\ ~afterRecover)

\* a write recovered twice and a later transmission was accepted
C15_Witness ==
    /\ recovers >= 2
    /\ \E i \in Transmitted :
          transmissions[i].retry /\ transmissions[i].outcome = "ok"

C17_Conservation ==
    /\ Len(written) = tell + buffer_size
    /\ written = Handed(Len(transmissions)) \o buffer

\* inside a write, after a lost chunk, with bytes still buffered
C17_Witness ==
    /\ pc = "in_write"
    /\ buffer_size > 0
    /\ \E i \in Transmitted : transmissions[i].outcome = "invalid_lost"
    /\ \E i \in Transmitted : transmissions[i].outcome = "ok"

\* the arguments of the initiate calls of the stream of storage/base.py
BaseInitiate ==
    [i \in 1..initiates |->
        [content_type |-> ContentType, stream_final |-> stream_final]]

\* C18: run side by side against the same backend answers, with the same
\* chunk size and the same sequence of enter / write / exit, the stream of
\* storage/base.py and the stream of main.py stand at the same point with
\* equal buffer, size and read cursor after every step, and have made the
\* same initiate, transmit_next_chunk and recover calls with the same
\* payloads; the initiate calls differ in the content type and in nothing
\* else.
C18_TwinEquivalence ==
    /\ twin.buffer = buffer
    /\ twin.buffer_size = buffer_size
    /\ twin.read = read_count
    /\ twin.pc = pc
    /\ twin.exc = exc
    /\ Len(twin.initiate) = initiates
    /\ \A i \in DOMAIN twin.initiate :
          /\ twin.initiate[i].content_type = MainContentType
          /\ [twin.initiate[i] EXCEPT !.content_type = ContentType]
                 = BaseInitiate[i]
    /\ Len(twin.sent) = Len(transmissions)
    /\ \A i \in Transmitted : twin.sent[i] = transmissions[i].payload
    /\ twin.recovers = recovers

\* both streams have been released after a chunk, a recovery and a last partial chunk,
\* and their initiate calls carry different content types
C18_Witness ==
    /\ pc = "closed"
    /\ twin.pc = "closed"
    /\ twin.recovers >= 1
    /\ Len(twin.sent) >= 2
    /\ twin.sent[Len(twin.sent)] # << >>
    /\ Len(twin.initiate) = 1
    /\ twin.initiate[1].content_type # BaseInitiate[1].content_type

EligibleIdx == {k \in 1..Len(mail.atts) : Eligible(mail.atts[k])}
ReleasedIdx == {mail.uploads[u].idx : u \in {v \in DOMAIN mail.uploads :
                                                 mail.uploads[v].released}}
ReleasedPaths == {mail.uploads[u].path : u \in {v \in DOMAIN mail.uploads :
                                                    mail.uploads[v].released}}

\* C19 (publication only after upload): the message is marked read, moved
\* and its event published only after the upload of every eligible
\* attachment was released normally; when an upload raised, none of the
\* three happens; every path in the published event belongs to an upload
\* released without error.
C19_PublishAfterUpload ==
    /\ (mail.is_read \/ mail.saved \/ mail.moved \/ mail.meta_blob
            \/ mail.published) =>
           (EligibleIdx \subseteq ReleasedIdx)
    /\ (\E u \in DOMAIN mail.uploads : ~mail.uploads[u].released) =>
           ~(mail.is_read \/ mail.saved \/ mail.moved \/ mail.published)
    /\ mail.published =>
           /\ \A k \in DOMAIN mail.event : mail.event[k].path \in ReleasedPaths
           /\ Len(mail.event) = Cardinality(EligibleIdx)

\* a published message with an eligible and a non-eligible attachment
C19_Witness ==
    /\ mail.published
    /\ mail.moved
    /\ Len(mail.atts) = 2
    /\ Cardinality(EligibleIdx) = 1
    /\ Len(mail.event) = 1

=============================================================================
